---------------------------- MODULE Spec2Model ----------------------------
(***************************************************************************)
(* tryagain: the synchronous retry loop (src/src/sync.rs), the             *)
(* asynchronous RetryFuture (src/src/future.rs) and the backoff policies   *)
(* (src/src/backoff.rs), run one after the other on the same operation,    *)
(* the same predicate and the same backoff policy: the synchronous call    *)
(* blocks the calling thread, and the RetryFuture is built and driven once *)
(* that call is over (or has reached the bound of the exploration).        *)
(*                                                                         *)
(* The operation is a function of the invocation index: the j-th           *)
(* invocation of the factory yields attempt j, whose outcome is            *)
(* outcomes[j].  The outcome is drawn when the attempt is first observed   *)
(* to resolve, and is then shared by the two variants.                     *)
(*                                                                         *)
(* Time is in milliseconds.  The timer facility and the scheduler are the  *)
(* host runtime: a registered wake fires no earlier than its delay, and    *)
(* the scheduler polls the task when it was woken (and may also poll it    *)
(* spuriously).                                                            *)
(***************************************************************************)
EXTENDS Integers, Sequences, FiniteSets, TLC

\* ------------------------------------------------------------- bounds
\* Largest number of invocations of the operation factory explored.
MaxAttempts == 3
\* How far the clock may run past the last scheduled instant.
MaxLate == 1
\* Largest of the small counts put to a backoff policy directly.
MaxCount == 6

\* ------------------------------------------------------------- inputs
Values == {"v1", "v2"}
Errors == {"e1", "e2"}

Ok(v) == [ok |-> TRUE, v |-> v]
Err(e) == [ok |-> FALSE, v |-> e]
NoResult == [ok |-> FALSE, v |-> "none"]

Outcomes == {Ok(v) : v \in Values} \cup {Err(e) : e \in Errors}

\* Caller-supplied predicates  P: Fn(&E, u32) -> bool.
Predicates == {"always", "never", "recoverable", "below1", "below2"}

Predicate(p, e, n) ==
    CASE p = "always"      -> TRUE
      [] p = "never"       -> FALSE
      [] p = "recoverable" -> e = "e1"
      [] p = "below1"      -> n < 1
      [] p = "below2"      -> n < 2

\* The wakers the context of a poll may carry.
Wakers == {"w1", "w2"}
Features == {"runtime-tokio", "runtime-async-std"}
None == -1

\* ------------------------------------------------------------- backoff.rs
RECURSIVE Pow(_, _)
Pow(b, n) == IF n = 0 THEN 1 ELSE b * Pow(b, n - 1)

\* A u32 is written as two and a u64 as four 16-bit limbs, most significant
\* first.  A Duration is its whole number of milliseconds, a u64.
U32(n) == <<n \div 65536, n % 65536>>
U64(v) == <<0, 0, v \div 65536, v % 65536>>

\* as_millis() of a Duration below 2^31 ms.
Millis(d) == d[3] * 65536 + d[4]

\* a <= b for two values of the same width.
LimbsLeq(a, b) ==
    \E k \in 1..(Len(a) + 1) :
        /\ \A i \in 1..(k - 1) : a[i] = b[i]
        /\ k = Len(a) + 1 \/ a[k] < b[k]

\* u64::MAX, which is what `as u64` makes of f32 +infinity.
U64_MAX == <<65535, 65535, 65535, 65535>>

\* `iterations as i32`: the same 32 bits read as two's complement.
as_i32(iterations) ==
    IF iterations[1] >= 32768
        THEN (iterations[1] - 65536) * 65536 + iterations[2]
        ELSE iterations[1] * 65536 + iterations[2]

\* f32: a significand of 24 bits; values of 2^128 and more are +infinity.
F32_MANTISSA == 16777216
F32_MAX_EXP == 128

\* The number of bits of v > 0.
RECURSIVE BitLength(_)
BitLength(v) == IF v <= 1 THEN 1 ELSE 1 + BitLength(v \div 2)

\* An f32 that is not negative: +infinity, zero, or <<m, x>> for the value
\* m * 2^x with 2^23 <= m < 2^24.
F32Inf == <<-1, 0>>
F32Zero == <<0, 0>>
F32Finite(m, x) == IF x + BitLength(m) > F32_MAX_EXP THEN F32Inf ELSE <<m, x>>

\* The f32 nearest to v * 2^x for an integer v >= 0, ties to even: v keeps
\* its 24 leading bits.
F32Round(v, x) ==
    IF v = 0
        THEN F32Zero
        ELSE IF v < F32_MANTISSA
        THEN LET up == BitLength(F32_MANTISSA - 1) - BitLength(v)
             IN  F32Finite(v * Pow(2, up), x - up)
        ELSE LET down == BitLength(v) - BitLength(F32_MANTISSA - 1)
                 ulp  == Pow(2, down)
                 q    == v \div ulp
                 r    == v % ulp
                 m    == IF 2 * r > ulp \/ (2 * r = ulp /\ q % 2 = 1)
                            THEN q + 1 ELSE q
             IN  IF m = F32_MANTISSA
                    THEN F32Finite(m \div 2, x + down + 1)
                    ELSE F32Finite(m, x + down)

\* a * b in f32.  The exact product of the two significands has up to 48
\* bits: it is formed from their 12-bit halves as top * 2^24 + rest, and
\* rounded from its leading 27 bits, the last of which stands for every bit
\* below it.
F32Mul(a, b) ==
    IF a = F32Inf \/ b = F32Inf
        THEN F32Inf
        ELSE IF a = F32Zero \/ b = F32Zero
        THEN F32Zero
        ELSE LET half  == 4096
                 hi    == (a[1] \div half) * (b[1] \div half)
                 mid   == (a[1] \div half) * (b[1] % half)
                            + (a[1] % half) * (b[1] \div half)
                 low   == (mid % half) * half + (a[1] % half) * (b[1] % half)
                 top   == hi + (mid \div half) + (low \div F32_MANTISSA)
                 rest  == low % F32_MANTISSA
                 guard == F32_MANTISSA \div 4
                 lead  == top * 8 + (rest \div guard) * 2
                            + (IF rest % guard > 0 THEN 1 ELSE 0)
             IN  F32Round(lead, a[2] + b[2] + 21)

\* a - 1.0 in f32, for a >= 1.  Below 2^24 the difference is exact; from
\* 2^31 on, 1.0 is less than a quarter of the distance to the next f32 below.
F32SubOne(a) ==
    IF a = F32Inf
        THEN F32Inf
        ELSE IF a[2] <= 0
        THEN F32Round(a[1] - Pow(2, 0 - a[2]), a[2])
        ELSE IF a[2] <= 6
        THEN F32Round(a[1] * Pow(2, a[2]) - 1, 0)
        ELSE a

\* base.powi(n) for n >= 0: the exponent's bits are taken from the least
\* significant one, the base is squared for each further bit, and every
\* product is rounded to f32.  Once a square is +infinity so is the
\* result, the leading bit of the exponent being still to come.
RECURSIVE powi_loop(_, _, _)
powi_next(a, pow, mul) == IF pow = 0 THEN mul ELSE powi_loop(F32Mul(a, a), pow, mul)

powi_loop(a, pow, mul) ==
    IF pow > 0 /\ a = F32Inf
        THEN F32Inf
        ELSE powi_next(a, pow \div 2, IF pow % 2 = 1 THEN F32Mul(mul, a) ELSE mul)

\* An integer of any size: its 12-bit limbs, least significant first.
LIMB == 4096

RECURSIVE BigOf(_)
BigOf(v) == IF v = 0 THEN << >> ELSE <<v % LIMB>> \o BigOf(v \div LIMB)

RECURSIVE BigTrim(_)
BigTrim(a) ==
    IF a # << >> /\ a[Len(a)] = 0 THEN BigTrim(SubSeq(a, 1, Len(a) - 1)) ELSE a

\* Limb k of a * b before the carries, from the products with a[lo..hi]:
\* the low halves of the products of weight k and the high halves of those
\* of weight k - 1.  The range is halved so that the sum stays shallow.
RECURSIVE BigColumn(_, _, _, _, _)
BigColumn(a, b, k, lo, hi) ==
    IF lo > hi
        THEN 0
        ELSE IF lo = hi
        THEN (IF k + 1 - lo \in 1..Len(b) THEN (a[lo] * b[k + 1 - lo]) % LIMB ELSE 0)
             + (IF k - lo \in 1..Len(b) THEN (a[lo] * b[k - lo]) \div LIMB ELSE 0)
        ELSE BigColumn(a, b, k, lo, (lo + hi) \div 2)
             + BigColumn(a, b, k, ((lo + hi) \div 2) + 1, hi)

\* Limbs lo..hi of a * b with the carry into limb lo, as <<limbs, carry out>>;
\* the lower half of the range hands its carry to the upper half.
BigJoin(left, right) == <<left[1] \o right[1], right[2]>>

BigLimb(column) == <<<<column % LIMB>>, column \div LIMB>>

RECURSIVE BigCarry(_, _, _, _, _)
BigThen(a, b, lo, hi, left) == BigJoin(left, BigCarry(a, b, lo, hi, left[2]))

BigCarry(a, b, lo, hi, carry) ==
    IF lo = hi
        THEN BigLimb(BigColumn(a, b, lo, 1, IF Len(a) < lo THEN Len(a) ELSE lo) + carry)
        ELSE BigThen(a, b, ((lo + hi) \div 2) + 1, hi,
                     BigCarry(a, b, lo, (lo + hi) \div 2, carry))

BigMul(a, b) ==
    IF a = << >> \/ b = << >>
        THEN << >>
        ELSE BigTrim(BigCarry(a, b, 1, Len(a) + Len(b), 0)[1])

\* The number of bits of a, and its bit of weight 2^p.
BigBits(a) ==
    IF a = << >> THEN 0 ELSE 12 * (Len(a) - 1) + BitLength(a[Len(a)])

BigBit(a, p) ==
    IF p < 0 \/ p \div 12 >= Len(a)
        THEN 0
        ELSE (a[(p \div 12) + 1] \div Pow(2, p % 12)) % 2

\* The integer made of the count bits of a from weight 2^from upward.
RECURSIVE BigField(_, _, _)
BigField(a, from, count) ==
    IF count = 0 THEN 0 ELSE BigBit(a, from) + 2 * BigField(a, from + 1, count - 1)

\* An exact value N * 2^x kept as <<N, x>> with N odd; Huge stands for the
\* values of 2^129 and more.
Huge == <<<< >>, 0>>

RECURSIVE ExactOf(_, _)
ExactOf(m, x) == IF m % 2 = 0 THEN ExactOf(m \div 2, x + 1) ELSE <<BigOf(m), x>>

ExactFit(n, x) == IF BigBits(n) + x > F32_MAX_EXP + 1 THEN Huge ELSE <<n, x>>

ExactMul(a, b) ==
    IF a = Huge \/ b = Huge
        THEN Huge
        ELSE IF BigBits(a[1]) + a[2] + BigBits(b[1]) + b[2] > F32_MAX_EXP + 2
        THEN Huge
        ELSE ExactFit(BigMul(a[1], b[1]), a[2] + b[2])

\* The f64 nearest to the exact value a, then the f32 nearest to that f64.
\* Of the leading 54 bits of N, 24 go to lead and 30 to rest; the f64 keeps
\* all but the last of them, rounded to low, and the f32 is rounded from
\* lead, the bit after it and one more that stands for every bit of the
\* f64 below.
F64Low(rest, sticky) ==
    (rest \div 2)
        + (IF rest % 2 = 1 /\ (sticky \/ (rest \div 2) % 2 = 1) THEN 1 ELSE 0)

F32OfF64(lead, low, x) ==
    F32Round((lead + (low \div (F32_MANTISSA * 32))) * 4
                 + ((low % (F32_MANTISSA * 32)) \div (F32_MANTISSA * 16)) * 2
                 + (IF low % (F32_MANTISSA * 16) > 0 THEN 1 ELSE 0),
             x)

F32OfBits(n, x, top) ==
    F32OfF64(BigField(n, top - 23, 24),
             F64Low(BigField(n, top - 53, 30),
                    \E p \in 0..(top - 54) : BigBit(n, p) = 1),
             x + top - 25)

F32ViaF64(a) == IF a = Huge THEN F32Inf ELSE F32OfBits(a[1], a[2], BigBits(a[1]) - 1)

\* base^n for n >= 0, exact, by the same squarings.
RECURSIVE ExactPow(_, _, _)
ExactNext(a, pow, mul) == IF pow = 0 THEN mul ELSE ExactPow(ExactMul(a, a), pow, mul)

ExactPow(a, pow, mul) ==
    IF pow > 0 /\ a = Huge
        THEN Huge
        ELSE ExactNext(a, pow \div 2, IF pow % 2 = 1 THEN ExactMul(mul, a) ELSE mul)

\* base.powi(n) when the compiler knows base and n and evaluates the call
\* itself: the power is worked out in f64 and converted to f32.
powi_compiled(base, n) == F32ViaF64(ExactPow(ExactOf(base[1], base[2]), n, ExactOf(1, 0)))

\* The precision of f32::powi is unspecified, and the build decides how a
\* call is evaluated: by the loop of the compiler runtime when the program
\* runs, or by the compiler when the call is inlined with operands it knows.
Evaluations == {"runtime", "compiled"}

powi(base, n, how) ==
    IF how = "compiled"
        THEN powi_compiled(base, n)
        ELSE powi_loop(base, n, F32Round(1, 0))

\* v * 2^s for a u64 v below 2^24 and 0 <= s <= 40.
U64Shl(v, s) ==
    LET wide(i) == v[i] * Pow(2, s % 16)
        bits(i) == (wide(i) % 65536) + (IF i < 4 THEN wide(i + 1) \div 65536 ELSE 0)
        limb(i) == IF i + (s \div 16) <= 4 THEN bits(i + (s \div 16)) ELSE 0
    IN  <<limb(1), limb(2), limb(3), limb(4)>>

\* `f as u64` for an f32 that is not negative: the value truncated toward
\* zero, and u64::MAX for 2^64 and more.
as_u64(f) ==
    IF f = F32Inf
        THEN U64_MAX
        ELSE IF f = F32Zero
        THEN U64(0)
        ELSE IF f[2] + BitLength(f[1]) > 64
        THEN U64_MAX
        ELSE IF f[2] >= 0
        THEN U64Shl(U64(f[1]), f[2])
        ELSE IF 0 - f[2] >= BitLength(f[1])
        THEN U64(0)
        ELSE U64(f[1] \div Pow(2, 0 - f[2]))

\* The f32 base num/den of an ExponentialBackoff; den is a power of two.
F32Base(num, den) == F32Round(num, 1 - BitLength(den))

\* ExponentialBackoff::backoff_period:  y = base.powi(iterations as i32)
\* - 1.0, then (y * 100.0) as u64 milliseconds.  A negative exponent gives
\* the reciprocal of a power that is 1 or more, so y * 100.0 <= 0 and
\* `as u64` saturates to 0.
ExponentialBackoff_backoff_period(num, den, iterations, how) ==
    IF as_i32(iterations) < 0
        THEN U64(0)
        ELSE as_u64(F32Mul(F32SubOne(powi(F32Base(num, den), as_i32(iterations), how)),
                           F32Round(100, 0)))

\* ImmediateBackoff::backoff_period: Duration::from_secs(0).
ImmediateBackoffPeriod(iterations) == U64(0)

\* Faulty variant: the smaller of the two durations.
DurationMin(a, b) == IF LimbsLeq(a, b) THEN a ELSE b

\* Duration::max
DurationMax(a, b) == IF LimbsLeq(b, a) THEN a ELSE b

ImmediateBackoff == <<"Immediate">>
ExponentialBackoff(num, den) == <<"Exponential", num, den>>
ExponentialDefault == ExponentialBackoff(5, 4)
MinimumBackoff(inner, min) == <<"Minimum", min, inner>>

\* ExponentialBackoff::backoff_period of the bases and counts the policies
\* below are asked with, worked out once for each evaluation of powi: the
\* pairs <<question, period>>.
ExponentialPeriods ==
    {<<q, ExponentialBackoff_backoff_period(q[1][1], q[1][2], q[2], q[3])>> :
        q \in {<<5, 4>>, <<10, 1>>, <<2, 1>>, <<3, 2>>}
                 \X ({U32(n) : n \in 0..(2 * MaxAttempts + MaxCount)}
                        \cup {<<0, 28>>, <<0, 50>>, <<0, 127>>, <<0, 512>>,
                              <<32767, 65535>>, <<32768, 0>>, <<65535, 65535>>})
                 \X Evaluations}

\* The period of the pair found for a question, or else the period worked
\* out for it.
Known(found, period) == IF found = {} THEN period ELSE (CHOOSE r \in found : TRUE)[2]

\* Backoff::backoff_period of the policy b for a u32 count; a MinimumBackoff
\* holds its floor in milliseconds.
RECURSIVE backoff_period_u32(_, _, _)
backoff_period_u32(b, iterations, how) ==
    CASE b[1] = "Immediate"   -> ImmediateBackoffPeriod(iterations)
      [] b[1] = "Exponential" ->
            Known({r \in ExponentialPeriods : r[1] = <<<<b[2], b[3]>>, iterations, how>>},
                  ExponentialBackoff_backoff_period(b[2], b[3], iterations, how))
      [] b[1] = "Minimum"     ->
            DurationMax(U64(b[2]), backoff_period_u32(b[3], iterations, how))

\* The backoff_period calls one query of the policy b makes, outermost first.
RECURSIVE Calls(_, _)
Calls(b, iterations) ==
    << <<b, iterations>> >> \o
    (IF b[1] = "Minimum" THEN Calls(b[3], iterations) ELSE << >>)

\* The one element of a set.
Only(given) == CHOOSE d \in given : given = {d}

Policies == {ImmediateBackoff, ExponentialDefault, MinimumBackoff(ImmediateBackoff, 2)}

\* backoff_period_u32 in milliseconds, for the policies the retry loops are
\* run with and the counts they reach, worked out once as triples <<policy,
\* count, delay>>: the delay every evaluation gives, the powers being exact
\* in f32 at these counts.
Periods ==
    {<<b, n, Only({Millis(backoff_period_u32(b, U32(n), how)) : how \in Evaluations})>> :
        b \in Policies, n \in 0..(2 * MaxAttempts)}

\* Backoff::backoff_period as the retry loops call it.
backoff_period(b, n) == (CHOOSE r \in Periods : r[1] = b /\ r[2] = n)[3]

\* ------------------------------------------------------------- state
VARIABLES
    entry,          \* which entry point is called: "retry" or "retry_if"
    predicate,      \* the predicate handed to retry_if
    policy,         \* the backoff policy handed to both variants
    features,       \* the runtime features the crate is built with
    uses,           \* the variants the calling program uses: "sync", "async"
    contexts,       \* the wakers the scheduler hands the task's polls
    outcomes,       \* outcomes[j]: the result of attempt j, once drawn
    s_pc,           \* sync: "loop", "sleeping", "returned", "unreachable"
    s_wake,         \* sync: the instant the thread's sleep is over (or None)
    s_iterations,   \* sync: `iterations`
    s_calls,        \* sync: invocations of func
    s_log,          \* sync: calls made, in order
    s_result,       \* sync: the value returned
    a_built,        \* async: the RetryFuture exists
    a_done,         \* async: poll has returned Ready
    a_paused,       \* async: `paused_until` (None or an instant)
    a_iterations,   \* async: `iterations`
    a_calls,        \* async: invocations of the factory
    a_resolved,     \* async: the in-flight attempt has its result
    a_innerWaker,   \* async: waker the in-flight attempt holds
    a_cx,           \* async: the waker of the latest poll's context
    a_log,          \* async: calls made, in order
    a_result,       \* async: the value Ready carried
    a_ret,          \* async: what the latest poll returned
    a_pended,       \* async: some poll has returned Pending
    a_readies,      \* async: polls that returned Ready
    a_early,        \* async: the latest poll came before the deadline
    a_dropped,      \* async: the RetryFuture was dropped before completing
    now,            \* the clock
    timers,         \* wake requests registered and not yet fired
    woken,          \* the task's waker was invoked since the last poll
    b_history       \* backoff: the latest two queries put to `policy` directly

env == <<entry, predicate, policy, features, uses, contexts>>
svars == <<s_pc, s_wake, s_iterations, s_calls, s_log, s_result>>
avars == <<a_built, a_done, a_paused, a_iterations, a_calls, a_resolved, a_innerWaker,
           a_cx,
           a_log, a_result, a_ret, a_pended, a_readies, a_early, a_dropped>>
vars == <<env, outcomes, svars, avars, now, timers, woken, b_history>>

\* ------------------------------------------------------------- helpers
Events(log, tag) == SelectSeq(log, LAMBDA ev : ev[1] = tag)
Last(log) == log[Len(log)]
SetMax(S) == CHOOSE x \in S : \A y \in S : y <= x

\* The outcomes attempt j may have: the recorded one, or any if none is.
OutcomeChoices(j) == IF j <= Len(outcomes) THEN {outcomes[j]} ELSE Outcomes
Recorded(j, o) == IF j <= Len(outcomes) THEN outcomes ELSE Append(outcomes, o)

\* ------------------------------------------------------------- sync.rs
\* Faulty variant: the closure gives up after the first failure.
SyncRetryClosureGivesUp(e, n) == n < 1

\* retry passes the closure |_, _| true to retry_if.
SyncRetryClosure(e, n) == TRUE

\* predicate(&e, iterations)
SyncPredicate(e, n) ==
    IF entry = "retry" THEN SyncRetryClosure(e, n) ELSE Predicate(predicate, e, n)

\* The count retry_if hands to the predicate.
SyncPredicateCount(iterations) == iterations

\* Faulty variant: the policy is asked about the count after the increment.
SyncBackoffCountNext(iterations) == iterations + 1

\* The count retry_if hands to backoff_period.
SyncBackoffCount(iterations) == iterations

\* Faulty variant: the increment is lost.
SyncIncrementLost(iterations) == iterations

\* iterations += 1
SyncIncrement(iterations) == iterations + 1

\* Faulty variant: the error of the first attempt is kept and returned.
SyncPermanentFailureFirst(o) == IF Len(outcomes) >= 1 THEN outcomes[1] ELSE o

\* return Err(e)
SyncPermanentFailure(o) == o

\* One iteration of retry_if's loop up to the point where the thread
\* blocks: func(), the match on its result, the predicate, the policy query
\* and the call of std::thread::sleep; a return goes through retry's match
\* when retry is the entry point.
retry_if ==
    /\ "sync" \in uses
    /\ s_pc = "loop"
    /\ s_calls < MaxAttempts
    /\ \E o \in OutcomeChoices(s_calls + 1) :
         LET called == Append(s_log, <<"func", s_calls + 1>>)
             asked  == Append(called, <<"pred", o.v, SyncPredicateCount(s_iterations)>>)
             period == backoff_period(policy, SyncBackoffCount(s_iterations))
         IN  /\ outcomes' = Recorded(s_calls + 1, o)
             /\ s_calls' = s_calls + 1
             /\ IF o.ok
                THEN /\ s_pc' = "returned"
                     /\ s_result' = o
                     /\ s_log' = called
                     /\ s_wake' = None
                ELSE IF ~SyncPredicate(o.v, SyncPredicateCount(s_iterations))
                THEN /\ s_pc' = IF entry = "retry" THEN "unreachable" ELSE "returned"
                     /\ s_result' = IF entry = "retry" THEN NoResult
                                                       ELSE SyncPermanentFailure(o)
                     /\ s_log' = asked
                     /\ s_wake' = None
                ELSE /\ s_pc' = "sleeping"
                     /\ s_result' = s_result
                     /\ s_log' = asked \o << <<"backoff", SyncBackoffCount(s_iterations)>>,
                                             <<"sleep", period>> >>
                     /\ s_wake' = now + period
    /\ UNCHANGED <<env, b_history, s_iterations, avars, now, timers, woken>>

\* std::thread::sleep returns, no earlier than the period after the call,
\* and the loop goes on: iterations += 1.
sleep_return ==
    /\ s_pc = "sleeping"
    /\ now >= s_wake
    /\ s_pc' = "loop"
    /\ s_wake' = None
    /\ s_iterations' = SyncIncrement(s_iterations)
    /\ UNCHANGED <<env, b_history, outcomes, s_calls, s_log, s_result, avars, now,
                   timers, woken>>

\* The synchronous call no longer occupies the thread.
SyncOver ==
    \/ "sync" \notin uses
    \/ s_pc \in {"returned", "unreachable"}
    \/ s_pc = "loop" /\ s_calls = MaxAttempts

\* ------------------------------------------------------------- future.rs
\* future::retry passes the closure |_, _| true to future::retry_if.
AsyncRetryClosure(e, n) == TRUE

\* Faulty variant: the predicate's answer is ignored.
can_continue_ignored(e, n) == TRUE

\* let can_continue = (this.predicate)(&e, *this.iterations)
can_continue(e, n) ==
    IF entry = "retry" THEN AsyncRetryClosure(e, n) ELSE Predicate(predicate, e, n)

\* return Poll::Ready(Err(e))
AsyncPermanentFailure(o) == o

\* Faulty variant: the failure is not counted.
AsyncCountNoIncrement(iterations) == iterations

\* Faulty variant: the failure is counted twice.
AsyncCountTwice(iterations) == iterations + 2

\* `*this.iterations += 1` before the predicate is called.
AsyncCount(iterations) == iterations + 1

\* Faulty variant: no sleeper is spawned, so nothing wakes the task.
WakeRequestsNone(w, duration, n) == {}

\* Faulty variant: the sleeper is given the waker of the poll before this
\* one, when there was one.
WakeRequestsStaleWaker(w, duration, n) ==
    {[rt |-> f, waker |-> IF a_cx = "none" THEN w ELSE a_cx, delay |-> duration,
      due |-> now + duration, pause |-> n] : f \in features}

\* The wake request a pause registers: the sleeper spawned on the runtime
\* the crate is built with, holding the clone of the poll's waker.
WakeRequests(w, duration, n) ==
    {[rt |-> f, waker |-> w, delay |-> duration, due |-> now + duration, pause |-> n]
        : f \in features}

\* The calls of the runtime's spawn a pause makes, as the log records them;
\* what the spawned sleeper holds is in its wake request.
SpawnEvents(duration) ==
    (IF "runtime-tokio" \in features
        THEN << <<"spawn", "runtime-tokio", duration>> >> ELSE << >>)
    \o
    (IF "runtime-async-std" \in features
        THEN << <<"spawn", "runtime-async-std", duration>> >> ELSE << >>)

\* Faulty variant: the poll that arranged the retry does not report Pending.
RetryPollResultNotPending == "Ready"

\* What poll returns when the attempt failed and the retry was approved.
RetryPollResult == "Pending"

\* future::retry_if (and future::retry through it): the first attempt is
\* created at once, the task is not paused and has counted no failure.
\* Spawning the task schedules its first poll.
future_retry_if ==
    /\ ~a_built
    /\ SyncOver
    /\ a_built' = TRUE
    /\ a_calls' = a_calls + 1
    /\ a_log' = Append(a_log, <<"factory", a_calls + 1>>)
    /\ a_resolved' = FALSE
    /\ a_paused' = None
    /\ a_iterations' = 0
    /\ woken' = TRUE
    /\ UNCHANGED <<env, b_history, outcomes, svars, a_done, a_innerWaker, a_cx, a_result,
                   a_ret, a_pended, a_readies, a_early, a_dropped, now, timers>>

\* Faulty variant: a poll at the deadline itself still counts as early.
PausedBeforeOrAt(deadline, t) == t <= deadline

\* Faulty variant: the deadline is never consulted.
PausedNever(deadline, t) == FALSE

\* `Instant::now() < *paused_until`
PausedBefore(deadline, t) == t < deadline

\* Faulty variant: a task that was dropped is still polled.
PollableAfterDrop == a_built /\ ~a_done

\* poll takes the pinned RetryFuture: it runs only on a task that exists,
\* and a task that returned Ready is not polled again.
Pollable == a_built /\ ~a_done /\ ~a_dropped

\* RetryFuture::poll with the waker w in its context.
poll(w) ==
    /\ Pollable
    /\ a_cx' = w
    /\ UNCHANGED <<a_built, a_dropped>>
    /\ IF a_paused # None /\ PausedBefore(a_paused, now)
       THEN \* return Poll::Pending
            /\ a_ret' = "Pending"
            /\ a_pended' = TRUE
            /\ a_early' = TRUE
            /\ UNCHANGED <<a_done, a_paused, a_iterations, a_calls, a_resolved,
                           a_innerWaker, a_log, a_result, a_readies, timers>>
       ELSE IF ~a_resolved
       THEN \* the in-flight attempt is polled and is Pending
            /\ a_paused' = None
            /\ a_innerWaker' = w
            /\ a_ret' = "Pending"
            /\ a_pended' = TRUE
            /\ a_early' = FALSE
            /\ UNCHANGED <<a_done, a_iterations, a_calls, a_resolved, a_log,
                           a_result, a_readies, timers>>
       ELSE LET result == outcomes[a_calls]
                count  == AsyncCount(a_iterations)
                asked  == Append(a_log, <<"pred", result.v, count>>)
                duration == backoff_period(policy, count)
            IN  IF result.ok
                THEN /\ a_done' = TRUE
                     /\ a_result' = result
                     /\ a_ret' = "Ready"
                     /\ a_readies' = a_readies + 1
                     /\ a_paused' = None
                     /\ a_early' = FALSE
                     /\ UNCHANGED <<a_iterations, a_calls, a_resolved, a_innerWaker,
                                    a_log, a_pended, timers>>
                ELSE IF ~can_continue(result.v, count)
                THEN /\ a_done' = TRUE
                     /\ a_result' = AsyncPermanentFailure(result)
                     /\ a_ret' = "Ready"
                     /\ a_readies' = a_readies + 1
                     /\ a_paused' = None
                     /\ a_iterations' = count
                     /\ a_log' = asked
                     /\ a_early' = FALSE
                     /\ UNCHANGED <<a_calls, a_resolved, a_innerWaker, a_pended,
                                    timers>>
                ELSE /\ a_calls < MaxAttempts
                     /\ a_iterations' = count
                     /\ a_calls' = a_calls + 1
                     /\ a_resolved' = FALSE
                     /\ a_innerWaker' = "none"
                     /\ a_log' = asked \o << <<"factory", a_calls + 1>>,
                                             <<"backoff", count>> >>
                                       \o SpawnEvents(duration)
                     /\ a_paused' = now + duration
                     /\ timers' = timers \cup WakeRequests(w, duration, count)
                     /\ a_ret' = RetryPollResult
                     /\ a_pended' = (a_pended \/ RetryPollResult = "Pending")
                     /\ a_early' = FALSE
                     /\ UNCHANGED <<a_done, a_result, a_readies>>

\* ------------------------------------------------------------- host runtime
\* The scheduler polls the task after a wake.
PollWoken ==
    /\ woken
    /\ \E w \in contexts : poll(w)
    /\ woken' = FALSE
    /\ UNCHANGED <<env, b_history, outcomes, svars, now>>

\* The scheduler polls the task although nothing woke it.
PollSpurious ==
    /\ ~woken
    /\ \E w \in contexts : poll(w)
    /\ UNCHANGED <<env, b_history, outcomes, svars, now, woken>>

\* The in-flight attempt gets its result; it wakes the waker it holds.
Resolve ==
    /\ a_built
    /\ ~a_done
    /\ ~a_resolved
    /\ ~a_dropped
    /\ \E o \in OutcomeChoices(a_calls) : outcomes' = Recorded(a_calls, o)
    /\ a_resolved' = TRUE
    /\ woken' = (woken \/ a_innerWaker # "none")
    /\ UNCHANGED <<env, b_history, svars, a_built, a_done, a_paused, a_iterations,
                   a_calls, a_innerWaker, a_cx, a_log, a_result, a_ret, a_pended,
                   a_readies, a_early, a_dropped, now, timers>>

\* A registered wake fires, no earlier than its delay after registration
\* (and, by Tick, no later than MaxLate after it).
TimerFire ==
    \E t \in timers :
        /\ now >= t.due
        /\ timers' = timers \ {t}
        /\ woken' = TRUE
        /\ UNCHANGED <<env, b_history, outcomes, svars, avars, now>>

\* The owner drops the RetryFuture at a suspension point, after a poll
\* returned Pending.  Its fields go with it: the in-flight attempt and the
\* deadline.  The spawned sleepers own their waker clones and live on.
Drop ==
    /\ a_built
    /\ ~a_done
    /\ ~a_dropped
    /\ a_ret = "Pending"
    /\ a_dropped' = TRUE
    /\ woken' = FALSE
    /\ UNCHANGED <<env, b_history, outcomes, svars, a_built, a_done, a_paused, a_iterations,
                   a_calls, a_resolved, a_innerWaker, a_cx, a_log, a_result, a_ret,
                   a_pended, a_readies, a_early, now, timers>>

\* The instants something is scheduled for: the end of the thread's sleep,
\* the deadline and the wakes.
Scheduled == {s_wake, a_paused} \cup {t.due : t \in timers}

Horizon == SetMax({0} \cup Scheduled) + MaxLate

SetMin(S) == CHOOSE x \in S : \A y \in S : x <= y

\* The clock advances to the next scheduled instant, or by one millisecond
\* when nothing is scheduled ahead.  poll only compares the clock with the
\* deadline, so the instants in between add no behaviour.
Tick ==
    /\ now < Horizon
    /\ now' = IF \E t \in Scheduled : t > now
                 THEN SetMin({t \in Scheduled : t > now})
                 ELSE now + 1
    /\ \A t \in timers : now' <= t.due + MaxLate
    /\ s_pc = "sleeping" => now' <= s_wake + MaxLate
    /\ UNCHANGED <<env, b_history, outcomes, svars, avars, timers, woken>>

\* ------------------------------------------------------------- specification
\* Nothing has been called yet.
Idle ==
    /\ outcomes = << >>
    /\ s_pc = "loop"
    /\ s_wake = None
    /\ s_iterations = 0
    /\ s_calls = 0
    /\ s_log = << >>
    /\ s_result = NoResult
    /\ a_built = FALSE
    /\ a_done = FALSE
    /\ a_paused = None
    /\ a_iterations = 0
    /\ a_calls = 0
    /\ a_resolved = FALSE
    /\ a_innerWaker = "none"
    /\ a_cx = "none"
    /\ a_log = << >>
    /\ a_result = NoResult
    /\ a_ret = "none"
    /\ a_pended = FALSE
    /\ a_readies = 0
    /\ a_early = FALSE
    /\ a_dropped = FALSE
    /\ now = 0
    /\ timers = {}
    /\ woken = FALSE
    /\ b_history = << >>

\* The programs: an entry point, a predicate, a policy, a build and the
\* variants used.  The crate is built with exactly one runtime feature:
\* each spawn block of poll moves the one waker clone, so a build with both
\* features does not compile, and the future module is absent from a build
\* with none.
Programs ==
    /\ entry \in {"retry", "retry_if"}
    /\ predicate \in (IF entry = "retry" THEN {"always"} ELSE Predicates)
    /\ policy \in Policies
    /\ features \in {{f} : f \in Features}
    /\ uses \in {{"sync", "async"}, {"async"}}

\* The state before either entry point is called, under a scheduler that
\* hands the task the same waker at every poll.
Init ==
    /\ Programs
    /\ contexts = {"w1"}
    /\ Idle

Next ==
    \/ retry_if
    \/ sleep_return
    \/ future_retry_if
    \/ PollWoken
    \/ PollSpurious
    \/ Resolve
    \/ TimerFire
    \/ Tick

Spec == Init /\ [][Next]_vars

\* The backoff policies on their own: a caller builds a policy and puts
\* counts to it, in a call the build evaluates one way or the other.  The
\* counts are the small ones, some at which the powers of the bases below
\* are rounded by f32 and the two evaluations of powi differ, the least one
\* at which every base below overflows f32, and the ends of the two halves
\* of the u32 range.
BackoffPolicies ==
    {ImmediateBackoff,
     ExponentialDefault,
     ExponentialBackoff(10, 1),
     ExponentialBackoff(2, 1),
     ExponentialBackoff(3, 2),
     MinimumBackoff(ImmediateBackoff, 1000),
     MinimumBackoff(ExponentialDefault, 50),
     MinimumBackoff(ExponentialBackoff(10, 1), 5000),
     MinimumBackoff(MinimumBackoff(ExponentialDefault, 50), 90)}

BackoffCounts ==
    {U32(n) : n \in 0..MaxCount}
        \cup {<<0, 28>>, <<0, 50>>, <<0, 127>>}
        \cup {<<0, 512>>, <<32767, 65535>>, <<32768, 0>>, <<65535, 65535>>}

\* One call of policy.backoff_period(iterations).
BackoffQuery ==
    /\ \E iterations \in BackoffCounts, how \in Evaluations :
          LET query == [iterations |-> iterations,
                        how |-> how,
                        period |-> backoff_period_u32(policy, iterations, how),
                        calls |-> Calls(policy, iterations)]
          IN  b_history' = IF b_history = << >>
                              THEN <<query>>
                              ELSE <<Last(b_history), query>>
    /\ UNCHANGED <<env, outcomes, svars, avars, now, timers, woken>>

BackoffInit ==
    /\ entry = "retry_if"
    /\ predicate = "never"
    /\ policy \in BackoffPolicies
    /\ features = {"runtime-tokio"}
    /\ uses = {"sync", "async"}
    /\ contexts = {"w1"}
    /\ Idle

BackoffNext == BackoffQuery

BackoffSpec == BackoffInit /\ [][BackoffNext]_vars

\* The same program with an owner that may drop the task.
CancelNext ==
    \/ retry_if
    \/ sleep_return
    \/ future_retry_if
    \/ PollWoken
    \/ PollSpurious
    \/ Resolve
    \/ TimerFire
    \/ Tick
    \/ Drop

CancelSpec == Init /\ [][CancelNext]_vars

\* A program that uses the asynchronous variant only, under the host
\* runtime's guarantees: the construction runs, the clock advances, the
\* timer fires each registered wake, the scheduler polls the task after
\* each wake and every attempt resolves.  Nothing obliges the scheduler to
\* poll a task that was not woken.
LiveInit == Init /\ uses = {"async"}

LiveNext ==
    \/ future_retry_if
    \/ PollWoken
    \/ PollSpurious
    \/ Resolve
    \/ TimerFire
    \/ Tick

LiveSpec ==
    /\ LiveInit
    /\ [][LiveNext]_vars
    /\ WF_vars(future_retry_if)
    /\ WF_vars(Tick)
    /\ WF_vars(TimerFire)
    /\ WF_vars(PollWoken)
    /\ WF_vars(Resolve)

\* A program that uses the asynchronous variant only, under a scheduler
\* that may hand the task a different waker at each poll.
WakerInit ==
    /\ Programs
    /\ uses = {"async"}
    /\ contexts = Wakers
    /\ Idle

WakerSpec == WakerInit /\ [][LiveNext]_vars

TypeOK ==
    /\ s_pc \in {"loop", "sleeping", "returned", "unreachable"}
    /\ s_wake \in {None} \cup Nat
    /\ s_calls \in 0..MaxAttempts
    /\ a_calls \in 0..MaxAttempts
    /\ a_paused \in {None} \cup Nat
    /\ Len(outcomes) <= MaxAttempts

\* ------------------------------------------------------------- claims

\* The caller's predicate approves every failure.
AlwaysTrue == entry = "retry" \/ predicate = "always"

\* What the caller's predicate answers to a logged call <<"pred", e, n>>.
Approved(ev) == entry = "retry" \/ Predicate(predicate, ev[2], ev[3])

\* The invocations of the operation that succeeded, among the first n.
Successes(n) == {j \in 1..n : j <= Len(outcomes) /\ outcomes[j].ok}

\* C1: synchronous retry_if with an always-true predicate (and retry): once
\* the operation has succeeded on invocation k+1 after failing k times, the
\* call has returned exactly that success value, with k recorded failures
\* (iterations = k, k predicate calls, k sleeps) and exactly k+1
\* invocations; nothing is invoked after the first success.
C1_SyncRecovers ==
    (AlwaysTrue /\ Successes(s_calls) # {}) =>
        LET first == SetMin(Successes(s_calls))
        IN  /\ s_pc = "returned"
            /\ s_result = outcomes[first]
            /\ s_calls = first
            /\ Len(Events(s_log, "func")) = first
            /\ s_iterations = first - 1
            /\ Len(Events(s_log, "pred")) = first - 1
            /\ Len(Events(s_log, "sleep")) = first - 1

\* C1 witness: two failures, then a success on the third invocation.
C1_Witness ==
    /\ AlwaysTrue
    /\ s_pc = "returned"
    /\ s_calls = 3
    /\ s_iterations = 2
    /\ ~outcomes[1].ok /\ ~outcomes[2].ok /\ s_result = outcomes[3]

\* C2: in both variants the result is a success value or a permanent
\* failure; an error result is the error of the most recent attempt,
\* unchanged, and the last thing done was to ask the predicate about that
\* error, which answered false.
C2_ErrorVerbatim ==
    /\ (s_pc = "returned" /\ entry = "retry_if") =>
          /\ s_result \in Outcomes
          /\ ~s_result.ok =>
                /\ s_result = outcomes[s_calls]
                /\ Last(s_log)[1] = "pred"
                /\ Last(s_log)[2] = s_result.v
                /\ ~Approved(Last(s_log))
    /\ a_done =>
          /\ a_result \in Outcomes
          /\ ~a_result.ok =>
                /\ a_result = outcomes[a_calls]
                /\ Last(a_log)[1] = "pred"
                /\ Last(a_log)[2] = a_result.v
                /\ ~Approved(Last(a_log))

\* C2 witness: both variants were vetoed on a second error that differs
\* from the first one.
C2_Witness ==
    /\ s_pc = "returned" /\ s_calls = 2 /\ s_result = Err("e2")
    /\ a_done /\ a_calls = 2 /\ a_result = Err("e2")
    /\ outcomes[1] = Err("e1")

\* The first failure was put to the predicate, which answered false.
FirstVetoed(log) ==
    /\ Events(log, "pred") # << >>
    /\ ~Approved(Events(log, "pred")[1])

\* C3: in both variants, when the first attempt fails and the predicate
\* answers false on it, the original error is returned at once, the
\* factory has been invoked exactly once, backoff_period has not been
\* called and no sleep or wake has been registered.
C3_FirstVeto ==
    /\ (entry = "retry_if" /\ FirstVetoed(s_log)) =>
          /\ s_pc = "returned"
          /\ s_result = outcomes[1]
          /\ s_calls = 1
          /\ Len(Events(s_log, "func")) = 1
          /\ Events(s_log, "backoff") = << >>
          /\ Events(s_log, "sleep") = << >>
    /\ FirstVetoed(a_log) =>
          /\ a_done
          /\ a_result = outcomes[1]
          /\ a_calls = 1
          /\ Len(Events(a_log, "factory")) = 1
          /\ Events(a_log, "backoff") = << >>
          /\ Events(a_log, "spawn") = << >>
          /\ timers = {}
          /\ a_paused = None

\* C3 witness: both variants were vetoed on the first failure.
C3_Witness ==
    /\ entry = "retry_if"
    /\ FirstVetoed(s_log) /\ s_pc = "returned"
    /\ FirstVetoed(a_log) /\ a_done

\* C4: synchronous retry either has returned a success value or is still
\* looping; it never returns an error and never reaches unreachable!().
C4_RetryNeverErr ==
    entry = "retry" =>
        /\ s_pc \in {"loop", "sleeping", "returned"}
        /\ s_pc = "returned" => (s_result \in Outcomes /\ s_result.ok)

\* C4 witness: the operation has failed on every invocation explored and
\* retry is still looping.
C4_Witness ==
    /\ entry = "retry"
    /\ s_pc = "loop"
    /\ s_calls = MaxAttempts
    /\ \A j \in 1..s_calls : ~outcomes[j].ok

\* C5: a task whose operation failed and then succeeded has reported
\* Pending before it reported Ready(success); the poll in which an attempt
\* fails and the retry is approved returns Pending, whatever the delay; and
\* the task, never polled after Ready, reports Ready at most once.
C5_PendingBeforeReady ==
    /\ [](/\ (a_done /\ a_result.ok /\ a_iterations >= 1) => a_pended
          /\ a_paused # None => a_ret = "Pending"
          /\ a_readies <= 1
          /\ a_done <=> a_readies = 1
          /\ a_done <=> a_ret = "Ready")
    /\ [][(a_built /\ a_calls' = a_calls + 1) =>
            (a_ret' = "Pending" /\ a_pended' /\ ~a_done' /\ a_readies' = a_readies)]_vars

\* C5 witness: one failure, a retry with a zero delay, then success.
C5_Witness ==
    /\ policy = ImmediateBackoff
    /\ a_done /\ a_result.ok
    /\ a_iterations = 1 /\ a_calls = 2
    /\ a_pended /\ a_readies = 1

\* C6: every pause registers exactly one wake request, for the waker of the
\* poll that observed the failure and with the delay used for the deadline;
\* that wake fires once; no other poll outcome registers a wake.  The wake
\* requests made so far are as many as the pauses entered, one for each
\* backoff query.  The waker of the request a pause registers is the one
\* the context of that very poll carried, not that of an earlier poll or
\* the one the failed attempt held.
C6_ExactlyOneWake ==
    /\ [](a_built =>
            LET spawns == Events(a_log, "spawn")
                asked  == Events(a_log, "backoff")
            IN  /\ Len(spawns) = a_calls - 1
                /\ Len(spawns) = Len(asked)
                /\ \A i \in 1..Len(spawns) :
                      spawns[i][3] = backoff_period(policy, asked[i][2])
                /\ Cardinality(timers) <= Len(spawns)
                /\ Cardinality({t \in timers : t.pause = a_iterations}) <= 1)
    /\ [][(a_built /\ a_calls' = a_calls + 1) =>
             \E t \in timers' \ timers :
                /\ timers' = timers \cup {t}
                /\ t.waker = a_cx'
                /\ Last(a_log')[1] = "spawn"
                /\ Len(Events(a_log', "spawn")) = Len(Events(a_log, "spawn")) + 1
                /\ t.delay = backoff_period(policy, a_iterations')
                /\ t.due = a_paused'
                /\ t.pause = a_iterations']_vars
    /\ [][(a_built /\ a_calls' = a_calls) =>
             (timers' \subseteq timers /\ Cardinality(timers \ timers') <= 1)]_vars

\* C6 witness: two pauses were entered by polls that carried different
\* wakers.  Each registered one wake, for the waker of its own poll; the
\* wake of the first pause has not fired yet, and the one of the second is
\* due at the deadline.
C6_Witness ==
    /\ a_calls = 3
    /\ a_paused # None
    /\ Len(Events(a_log, "spawn")) = 2
    /\ a_cx = "w2"
    /\ Cardinality(timers) = 2
    /\ \E t \in timers : t.pause = 1 /\ t.waker = "w1"
    /\ \E t \in timers : t.pause = 2 /\ t.waker = "w2" /\ t.due = a_paused

\* The last predicate call logged.
LastAsked(log) == Events(log, "pred")[Len(Events(log, "pred"))]

\* C8: attempts are strictly sequential in both variants: the factory is
\* invoked again only when the previous attempt has resolved to a failure
\* and the predicate has answered true for that failure, never after a
\* success or a veto, and one invocation at a time.
C8_Sequential ==
    /\ [][(a_built /\ a_calls' # a_calls) =>
            /\ a_calls' = a_calls + 1
            /\ ~a_done
            /\ a_resolved /\ ~a_resolved'
            /\ ~outcomes[a_calls].ok
            /\ LastAsked(a_log')[2] = outcomes[a_calls].v
            /\ Approved(LastAsked(a_log'))]_vars
    /\ [][(s_calls >= 1 /\ s_calls' # s_calls) =>
            /\ s_calls' = s_calls + 1
            /\ s_pc = "loop"
            /\ ~outcomes[s_calls].ok
            /\ LastAsked(s_log)[2] = outcomes[s_calls].v
            /\ Approved(LastAsked(s_log))]_vars
    /\ [](/\ Len(Events(a_log, "factory")) = a_calls
          /\ Len(Events(s_log, "func")) = s_calls)

\* C8 witness: both variants have made a third invocation, and the
\* asynchronous attempt is unresolved.
C8_Witness ==
    /\ s_calls = 3
    /\ a_calls = 3 /\ ~a_resolved /\ ~a_done

\* C9: the two variants call the predicate with the same arguments, query
\* the backoff policy with the same counts, invoke the factory as often and
\* return the same result.
C9_SameLogic ==
    (entry = "retry_if" /\ s_pc = "returned" /\ a_done) =>
        /\ Events(s_log, "pred") = Events(a_log, "pred")
        /\ Events(s_log, "backoff") = Events(a_log, "backoff")
        /\ s_calls = a_calls
        /\ s_result = a_result

\* C10: with the exponential policy the delay between the first failed
\* attempt and the second attempt is backoff_period(0) = 0 ms in both
\* variants.
C10_FirstRetryImmediate ==
    policy = ExponentialDefault =>
        /\ Events(s_log, "sleep") # << >> => Events(s_log, "sleep")[1][2] = 0
        /\ Events(a_log, "spawn") # << >> => Events(a_log, "spawn")[1][3] = 0

\* The exploration ends here: the attempt in flight is the last one
\* explored, it failed and the retry is approved.
AtBound ==
    /\ a_built /\ ~a_done
    /\ a_calls = MaxAttempts
    /\ a_resolved
    /\ ~outcomes[a_calls].ok
    /\ Approved(<<"pred", outcomes[a_calls].v, a_iterations + 1>>)

\* C7: no missed wake.  The wake of the current pause is due no earlier than
\* the deadline; a paused task is eventually polled at or after its
\* deadline and leaves the paused state; and the task eventually reports
\* Ready unless the operation keeps failing with the retry approved.
C7_NoMissedWake ==
    /\ [](\A t \in timers :
            (a_paused # None /\ t.pause = a_iterations) => t.due >= a_paused)
    /\ [][(a_paused # None /\ a_paused' = None) => now >= a_paused]_vars
    /\ (a_paused # None) ~> (a_paused = None \/ AtBound)
    /\ a_built ~> (a_done \/ AtBound)

\* C7 witness: after a pause of the exponential policy the task has left
\* the paused state and polled the fresh attempt, which is Pending.
C7_Witness ==
    /\ policy = ExponentialDefault
    /\ a_calls = 2 /\ a_paused = None /\ ~a_done
    /\ a_innerWaker # "none"
    /\ now >= 25

\* The failed attempts each variant has observed so far.
SyncFailures == Cardinality({j \in 1..s_calls : ~outcomes[j].ok})
AsyncFailures == (a_calls - 1) + (IF a_done /\ ~a_result.ok THEN 1 ELSE 0)

\* The synchronous call ended on a failure the predicate vetoed.
SyncVetoed == s_pc = "unreachable" \/ (s_pc = "returned" /\ ~s_result.ok)

\* C11 as stated: in both variants the attempt count equals the number of
\* failed attempts observed so far, a vetoed failure included.
C11_CountsEveryFailure ==
    /\ s_iterations = SyncFailures
    /\ a_built => a_iterations = AsyncFailures

\* C11 as amended: the count starts at 0 and grows by one per observed
\* failure, never on a success; the asynchronous task counts every failure
\* it observed, a vetoed one included, while the synchronous loop counts an
\* approved failure once the sleep after it is over and returns a vetoed
\* failure uncounted.
C11_CountsFailures ==
    /\ s_calls = 0 => s_iterations = 0
    /\ s_iterations = SyncFailures - (IF SyncVetoed \/ s_pc = "sleeping" THEN 1 ELSE 0)
    /\ ~a_built => a_iterations = 0
    /\ a_built => a_iterations = AsyncFailures
    /\ (a_built /\ a_calls = 1 /\ ~a_done) => a_iterations = 0

\* C11 witness: both variants were vetoed on their second failure; the
\* synchronous count is 1 and the asynchronous count is 2.
C11_Witness ==
    /\ s_pc = "returned" /\ ~s_result.ok /\ s_calls = 2 /\ s_iterations = 1
    /\ a_done /\ ~a_result.ok /\ a_calls = 2 /\ a_iterations = 2

\* C16: synchronous step order.  The j-th failure is put to the predicate
\* exactly once, with the count j-1; an approved failure is followed by
\* exactly one policy query with j-1, a sleep of exactly that period, the
\* increment of the count to j, and only then by the next invocation.  The
\* predicate and the policy see 0, 1, 2, ... in order and the policy is
\* queried once per approved failure.
C16_SyncStepOrder ==
  /\ [][(s_pc # "sleeping" /\ s_pc' = "sleeping") =>
          /\ s_wake' = now + backoff_period(policy, s_iterations)
          /\ Last(s_log') = <<"sleep", backoff_period(policy, s_iterations)>>
          /\ s_iterations' = s_iterations]_vars
  /\ [][(s_pc = "sleeping" /\ s_pc' # "sleeping") =>
          /\ now >= s_wake
          /\ s_iterations' = s_iterations + 1
          /\ s_pc' = "loop"
          /\ UNCHANGED <<s_calls, s_log>>]_vars
  /\ [][s_calls' # s_calls => s_pc = "loop" /\ s_iterations = s_calls]_vars
  /\ []
    LET funcs    == Events(s_log, "func")
        preds    == Events(s_log, "pred")
        backoffs == Events(s_log, "backoff")
        sleeps   == Events(s_log, "sleep")
    IN  /\ \A j \in 1..Len(preds) : preds[j] = <<"pred", outcomes[j].v, j - 1>>
        /\ Len(preds) = SyncFailures
        /\ \A j \in 1..Len(backoffs) :
              /\ backoffs[j] = <<"backoff", j - 1>>
              /\ sleeps[j] = <<"sleep", backoff_period(policy, j - 1)>>
        /\ Len(sleeps) = Len(backoffs)
        /\ Len(backoffs) = Cardinality({j \in 1..Len(preds) : Approved(preds[j])})
        /\ Len(backoffs) = s_iterations + (IF s_pc = "sleeping" THEN 1 ELSE 0)
        /\ \A i \in 1..Len(s_log) :
              /\ s_log[i][1] = "pred" =>
                    /\ s_log[i - 1] = <<"func", s_log[i][3] + 1>>
                    /\ ~outcomes[s_log[i][3] + 1].ok
              /\ s_log[i][1] = "backoff" =>
                    /\ s_log[i - 1][1] = "pred"
                    /\ s_log[i - 1][3] = s_log[i][2]
                    /\ Approved(s_log[i - 1])
              /\ s_log[i][1] = "sleep" => s_log[i - 1][1] = "backoff"
              /\ (s_log[i][1] = "func" /\ i > 1) =>
                    /\ s_log[i - 1][1] = "sleep"
                    /\ s_log[i][2] = s_log[i - 2][2] + 2
              /\ (s_log[i][1] = "func" /\ i = 1) => s_log[i][2] = 1
        /\ s_pc = "loop" => s_iterations = s_calls

\* C16 witness: two approved failures under the exponential policy, so the
\* policy was asked about 0 and 1, the second sleep lasted 25 ms and the
\* third invocation came after it, with the count at 2.
C16_Witness ==
    /\ Len(Events(s_log, "backoff")) = 2
    /\ Events(s_log, "sleep")[2] = <<"sleep", 25>>
    /\ s_calls = 3
    /\ s_iterations = 2
    /\ now >= 25

\* C17: asynchronous failure step.  A poll that finds the attempt failed
\* increments the count first and asks the predicate exactly once with the
\* error and the incremented count, so the j-th failure is seen with j.
\* If the predicate approves, the same poll invokes the factory once,
\* queries the policy once with the same count, sets the deadline to
\* now + delay and returns Pending; if it vetoes, neither the factory nor
\* the policy is called and the poll returns Ready(Err).
C17_AsyncFailureStep ==
    [][(a_built /\ a_log' # a_log) =>
          LET j    == a_iterations + 1
              e    == outcomes[a_calls]
              ask  == <<"pred", e.v, j>>
              tail == SubSeq(a_log', Len(a_log) + 1, Len(a_log'))
          IN  /\ a_resolved /\ ~e.ok /\ ~a_done
              /\ j = Len(Events(a_log, "pred")) + 1
              /\ a_iterations' = j
              /\ SubSeq(a_log', 1, Len(a_log)) = a_log
              /\ tail[1] = ask
              /\ IF Approved(ask)
                 THEN /\ Len(tail) >= 3
                      /\ tail[2] = <<"factory", a_calls + 1>>
                      /\ tail[3] = <<"backoff", j>>
                      /\ \A i \in 4..Len(tail) : tail[i][1] = "spawn"
                      /\ a_calls' = a_calls + 1
                      /\ ~a_resolved'
                      /\ a_paused' = now + backoff_period(policy, j)
                      /\ a_ret' = "Pending"
                      /\ ~a_done'
                 ELSE /\ tail = <<ask>>
                      /\ a_calls' = a_calls
                      /\ a_ret' = "Ready"
                      /\ a_done'
                      /\ a_result' = e
                      /\ a_readies' = a_readies + 1]_vars

\* C17 witness: the poll that saw the second failure has just paused the
\* task for backoff_period(2) = 56 ms under the exponential policy.
C17_Witness ==
    /\ a_iterations = 2
    /\ a_calls = 3
    /\ a_paused = now + 56
    /\ a_ret = "Pending"
    /\ Events(a_log, "backoff") = << <<"backoff", 1>>, <<"backoff", 2>> >>

\* How often the asynchronous task has invoked each of its callbacks.
FactoryCalls == Len(Events(a_log, "factory"))
PredicateCalls == Len(Events(a_log, "pred"))
BackoffQueries == Len(Events(a_log, "backoff"))

\* C20: asynchronous bookkeeping.  Construction invokes the factory exactly
\* once, with the count at 0 and no pause.  Until the task reports Ready,
\* factory invocations = count + 1 and predicate invocations = backoff
\* queries = count.  After a veto, factory invocations = count and backoff
\* queries = count - 1; after a success, factory invocations = count + 1.
C20_Bookkeeping ==
    /\ [](/\ FactoryCalls = a_calls
          /\ ~a_built => (FactoryCalls = 0 /\ PredicateCalls = 0 /\ BackoffQueries = 0)
          /\ (a_built /\ ~a_done) =>
                /\ FactoryCalls = a_iterations + 1
                /\ PredicateCalls = a_iterations
                /\ BackoffQueries = a_iterations
          /\ (a_done /\ ~a_result.ok) =>
                /\ FactoryCalls = a_iterations
                /\ PredicateCalls = a_iterations
                /\ BackoffQueries = a_iterations - 1
          /\ (a_done /\ a_result.ok) =>
                /\ FactoryCalls = a_iterations + 1
                /\ PredicateCalls = a_iterations
                /\ BackoffQueries = a_iterations)
    /\ [][(~a_built /\ a_built') =>
             /\ a_log' = << <<"factory", 1>> >>
             /\ a_calls' = 1
             /\ a_iterations' = 0
             /\ a_paused' = None
             /\ ~a_done']_vars

\* C20 witness: the task ended by a veto of its second failure, after two
\* factory invocations and one backoff query.
C20_Witness ==
    /\ a_done /\ ~a_result.ok
    /\ a_iterations = 2
    /\ FactoryCalls = 2
    /\ BackoffQueries = 1

\* Some poll of the task, whatever waker the scheduler hands it.
Polled == \E w \in Wakers : poll(w)

\* C18: polls that make no progress change nothing.  A poll in the paused
\* state strictly before the deadline returns Pending, does not poll the
\* in-flight attempt and leaves deadline, count and attempt as they were; a
\* poll whose attempt is still pending returns Pending and leaves count and
\* attempt as they were; neither invokes factory, predicate or policy.  A
\* poll at or after the deadline clears the paused state and polls the
\* attempt.
C18_NoProgressPolls ==
    [][Polled =>
          /\ (a_paused # None /\ now < a_paused) =>
                /\ a_ret' = "Pending"
                /\ UNCHANGED <<a_paused, a_iterations, a_calls, a_resolved,
                               a_innerWaker, a_log, a_done, a_result, timers>>
          /\ (~(a_paused # None /\ now < a_paused) /\ ~a_resolved) =>
                /\ a_ret' = "Pending"
                /\ a_innerWaker' \in Wakers
                /\ UNCHANGED <<a_iterations, a_calls, a_resolved, a_log, a_done,
                               a_result, timers>>
          /\ (a_paused # None /\ now >= a_paused) =>
                /\ a_paused' = None \/ a_calls' = a_calls + 1
                /\ IF a_resolved THEN a_done' \/ a_calls' = a_calls + 1
                                 ELSE a_innerWaker' \in Wakers]_vars

\* C18 witness: during the 25 ms pause after the first failure a poll came
\* early and returned Pending; the deadline stands and the second attempt
\* has not been polled.
C18_Witness ==
    /\ a_early
    /\ a_paused = 25
    /\ now < a_paused
    /\ a_calls = 2
    /\ a_iterations = 1
    /\ a_innerWaker = "none"
    /\ a_ret = "Pending"

\* C19: the attempt created when the previous one failed is not polled
\* during the backoff delay.  While the task is paused the new attempt has
\* not been polled, and whatever polls arrive, the first step that polls it
\* or clears the pause happens at or after the deadline, which was set to
\* now + backoff_period(count) by the poll that saw the failure.
C19_NoAdvanceDuringDelay ==
    /\ [](a_paused # None =>
             /\ a_innerWaker = "none"
             /\ ~a_done
             /\ a_calls = a_iterations + 1
             /\ Last(a_log)[1] \in {"backoff", "spawn"})
    /\ [][/\ (a_paused # None /\ now < a_paused) =>
                UNCHANGED <<a_paused, a_innerWaker, a_log, a_calls, a_done, a_iterations>>
          /\ (a_paused' # a_paused /\ a_paused' # None) =>
                a_paused' = now + backoff_period(policy, a_iterations')]_vars

\* C19 witness: the third attempt has been polled, after the 2 ms floor
\* set at the second failure had passed.
C19_Witness ==
    /\ ~a_early
    /\ now >= 2
    /\ a_calls = 3
    /\ a_iterations = 2
    /\ a_paused = None
    /\ a_innerWaker \in Wakers
    /\ policy = MinimumBackoff(ImmediateBackoff, 2)

\* C15: cancellation.  Once the task has been dropped at a suspension point,
\* a wake that fires afterwards does nothing: the factory, the predicate
\* and the policy are not invoked again, no result is produced and no error
\* is reported.
C15_DropIsFinal ==
    /\ [](a_dropped => (~a_done /\ a_result = NoResult /\ a_readies = 0))
    /\ [][a_dropped =>
             UNCHANGED <<a_log, a_calls, a_iterations, a_result, a_done,
                         a_readies, a_ret, a_resolved, a_innerWaker, a_dropped,
                         outcomes>>]_vars

\* C15 witness: the task was dropped while paused with a wake registered,
\* and that wake has since fired.
C15_Witness ==
    /\ a_dropped
    /\ a_paused # None
    /\ a_iterations = 1
    /\ timers = {}
    /\ woken

\* The queries put to an exponential policy with a count in 0..MaxCount.
SmallExponentialQueries ==
    {i \in 1..Len(b_history) :
        /\ policy[1] = "Exponential"
        /\ b_history[i].iterations[1] = 0
        /\ b_history[i].iterations[2] <= MaxCount}

\* period is x truncated toward zero, for the rational x = exact / scale.
Truncates(period, exact, scale) ==
    /\ period * scale <= exact
    /\ exact < (period + 1) * scale

\* C12: backoff_period(n) of ExponentialBackoff is
\* 100 * (base^n - 1) milliseconds truncated toward zero: 0, 25, 56, 95 ms
\* for the default base 1.25 and 0, 900, 9900, 99900 ms for base 10 at
\* n = 0, 1, 2, 3.
C12_ExactFormula ==
    \A i \in SmallExponentialQueries :
        LET n == b_history[i].iterations[2]
        IN  /\ b_history[i].period[1] = 0 /\ b_history[i].period[2] = 0
            /\ Truncates(Millis(b_history[i].period),
                         100 * (Pow(policy[2], n) - Pow(policy[3], n)),
                         Pow(policy[3], n))
            /\ (policy = ExponentialBackoff(5, 4) /\ n <= 3) =>
                  Millis(b_history[i].period) = <<0, 25, 56, 95>>[n + 1]
            /\ (policy = ExponentialBackoff(10, 1) /\ n <= 3) =>
                  Millis(b_history[i].period) = <<0, 900, 9900, 99900>>[n + 1]

\* The floors of a chain of MinimumBackoff wrappers and the policy under them.
RECURSIVE Floors(_)
Floors(b) == IF b[1] = "Minimum" THEN {U64(b[2])} \cup Floors(b[3]) ELSE {}

RECURSIVE BasePolicy(_)
BasePolicy(b) == IF b[1] = "Minimum" THEN BasePolicy(b[3]) ELSE b

\* C13: a MinimumBackoff returns max(min_duration, inner.backoff_period(n))
\* for every n: never less than the floor, never less than the inner
\* policy's delay, always one of the two.  It queries its inner policy
\* exactly once, with the same n.  A chain of wrappers returns the maximum
\* of all floors and the base delay.  ImmediateBackoff under a floor of one
\* second gives 1000 ms for every n.
C13_MinimumBackoff ==
    \A i \in 1..Len(b_history) :
        policy[1] = "Minimum" =>
            LET q      == b_history[i]
                floor  == U64(policy[2])
                inner  == backoff_period_u32(policy[3], q.iterations, q.how)
                base   == backoff_period_u32(BasePolicy(policy), q.iterations, q.how)
                values == Floors(policy) \cup {base}
            IN  /\ LimbsLeq(floor, q.period)
                /\ LimbsLeq(inner, q.period)
                /\ q.period \in {floor, inner}
                /\ q.calls[1] = <<policy, q.iterations>>
                /\ Cardinality({k \in 2..Len(q.calls) : q.calls[k][1] = policy[3]}) = 1
                /\ q.calls[2] = <<policy[3], q.iterations>>
                /\ \A k \in 1..Len(q.calls) : q.calls[k][2] = q.iterations
                /\ q.period \in values
                /\ \A v \in values : LimbsLeq(v, q.period)
                /\ policy = MinimumBackoff(ImmediateBackoff, 1000) =>
                      q.period = U64(1000)

\* C13 witness: the chain of floors 90 ms over 50 ms over the default
\* exponential policy answered 90 ms for n = 1 (the outer floor) and 144 ms
\* for n = 4 (the base delay), asking each policy under it once.
C13_Witness ==
    /\ policy = MinimumBackoff(MinimumBackoff(ExponentialDefault, 50), 90)
    /\ Len(b_history) = 2
    /\ b_history[1].iterations = U32(1) /\ b_history[1].period = U64(90)
    /\ b_history[2].iterations = U32(4) /\ b_history[2].period = U64(144)
    /\ Len(b_history[2].calls) = 3

\* C14: for every base > 1 and all counts n of the u32 range, the
\* exponential delay does not decrease as n grows, the two delays being
\* taken with the same evaluation of powi.
C14_Monotone ==
    (policy[1] = "Exponential" /\ Len(b_history) = 2
        /\ b_history[1].how = b_history[2].how) =>
        (LimbsLeq(b_history[1].iterations, b_history[2].iterations) =>
            LimbsLeq(b_history[1].period, b_history[2].period))
=============================================================================
